---- MODULE Spec2Model ----
(***************************************************************************)
(* A model of client.py, the PersonaPlex real-time voice chat client.      *)
(*                                                                         *)
(* The client is one asyncio event loop (the supervisor coroutine          *)
(* stream_conversation and, per generation, the three tasks send_audio,    *)
(* receive_responses and monitor_input) and two device callbacks that run  *)
(* on the audio thread (audio_callback_in, audio_callback_out).  A task    *)
(* runs without interruption from one await to the next, so each action    *)
(* of a task is the code between two suspension points.                    *)
(*                                                                         *)
(* Audio samples are identified by their position in the stream they       *)
(* belong to (the n-th sample captured, the n-th sample decoded).  A       *)
(* sequence of samples is written as a sequence of runs <<lo, hi>>, the    *)
(* samples lo, lo+1, ..., hi; <<<<1, 480>>, <<961, 1440>>>> is the 960     *)
(* samples 1..480 followed by 961..1440.  The program's sizes (480-sample  *)
(* frames, the 48000-sample ceiling, the 100000-sample deque) keep their   *)
(* values.                                                                 *)
(***************************************************************************)
EXTENDS Integers, Sequences, FiniteSets, TLC

\* ------------------------------------------------------------ constants
SAMPLE_RATE == 24000
FRAME_SIZE == 480
MAX_QUEUE_SIZE == 10
SPEAKER_MAXLEN == 100000

\* ------------------------------------------------------------ bounds
\* capture callbacks during a session run
MaxPush == 2
\* capture callbacks in a burst that nobody drains
MaxBurst == 25
\* playback callbacks
MaxPlay == 2
\* messages the server sends during a session run
MaxServerMsgs == 3
\* audio messages the server sends in the playback scenario
MaxAudioMsgs == 4
\* lines typed on stdin
MaxLines == 2
\* chunks captured in the frame-assembly scenario
MaxChunks == 4
\* messages the server sends in the receiver scenario
MaxRecvMsgs == 3
\* capture callbacks in the scenario of a push racing a drain
MaxRacePush == 11

\* ------------------------------------------------------------ samples
Min(a, b) == IF a < b THEN a ELSE b
Max(a, b) == IF a > b THEN a ELSE b

\* the run of count samples that follows the first `base` samples of a stream
Samples(base, count) == IF count = 0 THEN <<>> ELSE << <<base + 1, base + count>> >>

RECURSIVE SamplesLen(_)
SamplesLen(s) == IF s = <<>> THEN 0 ELSE (s[1][2] - s[1][1] + 1) + SamplesLen(Tail(s))

\* np.concatenate([a, b]) and deque.extend without a bound: a followed by b
Concatenate(a, b) ==
    IF a = <<>> THEN b
    ELSE IF b = <<>> THEN a
    ELSE IF a[Len(a)][2] + 1 = b[1][1]
         THEN SubSeq(a, 1, Len(a) - 1) \o << <<a[Len(a)][1], b[1][2]>> >> \o Tail(b)
         ELSE a \o b

\* a[:n]
RECURSIVE TakeFront(_, _)
TakeFront(s, n) ==
    IF n <= 0 \/ s = <<>> THEN <<>>
    ELSE LET l == s[1][2] - s[1][1] + 1 IN
         IF l <= n THEN <<s[1]>> \o TakeFront(Tail(s), n - l)
         ELSE << <<s[1][1], s[1][1] + n - 1>> >>

\* a[n:]
RECURSIVE DropFront(_, _)
DropFront(s, n) ==
    IF n <= 0 \/ s = <<>> THEN s
    ELSE LET l == s[1][2] - s[1][1] + 1 IN
         IF l <= n THEN DropFront(Tail(s), n - l)
         ELSE << <<s[1][1] + n, s[1][2]>> >> \o Tail(s)

\* the samples of a sequence of chunks, in order
RECURSIVE Flatten(_)
Flatten(chunks) ==
    IF chunks = <<>> THEN <<>> ELSE Concatenate(chunks[1], Flatten(Tail(chunks)))

\* ------------------------------------------------------------ wire messages
\* A transport message is binary (bytes) or text (str); bytes[1] is the tag.
HandshakeMsg == [bin |-> TRUE, bytes |-> <<0>>]
AudioMsg(code) == [bin |-> TRUE, bytes |-> <<1, code>>]
TextMsg(code) == [bin |-> TRUE, bytes |-> <<2, code>>]
ControlRestartMsg == [bin |-> TRUE, bytes |-> <<3, 3>>]
EmptyMsg == [bin |-> TRUE, bytes |-> <<>>]
\* a binary message whose tag is none of 0x00 .. 0x03
UnknownTagMsg == [bin |-> TRUE, bytes |-> <<4, 1>>]
\* a text-typed message (a str, not bytes); the config is sent as one
StrMsg == [bin |-> FALSE, bytes |-> <<0>>]
ConfigMsg == [bin |-> FALSE, bytes |-> <<123>>]
\* the value of `msg` before line 173 has run
NoMsg == [bin |-> FALSE, bytes |-> <<>>]

\* What the Opus decoder returns for an audio payload: the number of samples
\* and whether their mean absolute amplitude exceeds 0.01.
PcmTable ==
    << [len |-> 0, loud |-> FALSE],
       [len |-> 480, loud |-> FALSE],
       [len |-> 480, loud |-> TRUE],
       [len |-> 200, loud |-> FALSE],
       [len |-> 24000, loud |-> FALSE] >>
ReadPcm(payload) == IF payload = <<>> THEN PcmTable[1] ELSE PcmTable[payload[1]]

\* payload.decode("utf-8") of a text payload: a fragment, whitespace, or an error
TextTable == << "hello", " ", "invalid-utf8" >>
DecodeText(payload) == IF payload = <<>> THEN "" ELSE TextTable[payload[1]]
IsBlank(text) == text \in {"", " "}

\* a handshake: a non-empty binary message whose tag byte is 0x00
IsHandshake(m) == m.bin /\ Len(m.bytes) > 0 /\ m.bytes[1] = 0

\* ------------------------------------------------------------ stdin lines
\* A line is the sequence of its characters; "<ff>" is a byte that is not UTF-8.
UpperCase == << "A", "E", "I", "Q", "R", "S", "T", "U" >>
LowerCase == << "a", "e", "i", "q", "r", "s", "t", "u" >>
Whitespace == {" ", "\n", "\t"}
ToLower(c) ==
    IF \E i \in DOMAIN UpperCase : UpperCase[i] = c
    THEN LowerCase[CHOOSE i \in DOMAIN UpperCase : UpperCase[i] = c]
    ELSE c
Lower(s) == [i \in DOMAIN s |-> ToLower(s[i])]
RECURSIVE LStrip(_)
LStrip(s) == IF s # <<>> /\ s[1] \in Whitespace THEN LStrip(Tail(s)) ELSE s
RECURSIVE RStrip(_)
RStrip(s) ==
    IF s # <<>> /\ s[Len(s)] \in Whitespace THEN RStrip(SubSeq(s, 1, Len(s) - 1)) ELSE s
Strip(s) == RStrip(LStrip(s))
Decodable(line) == \A i \in DOMAIN line : line[i] # "<ff>"
\* line.decode().strip().lower()
Command(line) == Lower(Strip(line))
Restart == << "r", "e", "s", "t", "a", "r", "t" >>
Quit == << "q", "u", "i", "t" >>
Lines ==
    { << "R", "e", "s", "t", "a", "r", "t", "\n" >>,
      << " ", "q", "u", "i", "t", " ", "\n" >>,
      << "f", "o", "o", "\n" >>,
      << "\n" >>,
      << "<ff>", "\n" >> }

VARIABLES
    \* the environment
    api_key,             \* whether BASETEN_API_KEY is set
    conn,                \* "none", "open", "lost" (ended by the peer or the network), "closed"
    inbox,               \* messages the server has sent and the client has not read
    sent,                \* messages the client has sent, in order
    nServer,             \* messages the server has sent
    nLines,              \* lines read from stdin
    \* stream_conversation
    supPc,               \* "init", "connecting", "connected", "await_handshake", "active", "pause", "done"
    input_stream,        \* "none", "running", "closed"
    output_stream,
    session_num,
    restart_requested,
    connects,            \* calls of websockets.connect
    msg,                 \* what line 173 received in this generation
    \* send_audio
    sndPc,               \* "idle", "start", "sending", "sleeping", "done"
    accumulated,
    frame_count,
    emitted,             \* the frames handed to the encoder in this generation
    drained,             \* the samples taken off the capture queue in this generation
    \* receive_responses
    rcvPc,               \* "idle", "waiting", "done"
    current_speaker,     \* "unset" while the global name is not bound
    current_line_buffer,
    \* monitor_input
    monPc,               \* "idle", "reading", "sending", "done"
    monResult,           \* its return value
    line,                \* what readline returned last in this generation
    \* the capture queue
    mic_queue,
    stats,
    nPush,               \* capture callbacks so far
    nCaptured,           \* samples captured so far
    pushed,              \* the chunks pushed since the queue was last drained
    inPc,                \* the capture callback: "idle", "full", "got"
    mono,                \* the chunk the capture callback is pushing
    \* the playback buffer
    speaker_buffer,
    nPlay,               \* playback callbacks so far
    nDecoded,            \* samples decoded and appended so far
    genBase,             \* samples decoded before the buffer was last emptied by line 150
    cleared,             \* the samples an overflow-clear removed since then
    played,              \* the samples written to the device since then, silence left out
    outdata,             \* what the last playback callback wrote
    outPc,               \* the playback callback: "idle", "popping", "raised"
    popsLeft,            \* the turns its loop of popleft calls has still to make
    pcmPending           \* the decoded samples line 254 has still to append

vars ==
    << api_key, conn, inbox, sent, nServer, nLines, supPc, input_stream,
       output_stream, session_num, restart_requested, connects, msg, sndPc,
       accumulated, frame_count, emitted, drained, rcvPc, current_speaker,
       current_line_buffer,
       monPc, monResult, line, mic_queue, stats, nPush, nCaptured, pushed,
       inPc, mono,
       speaker_buffer, nPlay, nDecoded, genBase, cleared, played, outdata,
       outPc, popsLeft, pcmPending >>

envVars == << api_key, conn, inbox, sent, nServer, nLines >>
supVars ==
    << supPc, input_stream, output_stream, session_num, restart_requested, connects, msg >>
sndVars == << sndPc, accumulated, frame_count, emitted, drained >>
rcvVars == << rcvPc, current_speaker, current_line_buffer >>
monVars == << monPc, monResult, line >>
micVars == << mic_queue, stats, nPush, nCaptured, pushed, inPc, mono >>
spkVars ==
    << speaker_buffer, nPlay, nDecoded, genBase, cleared, played, outdata,
       outPc, popsLeft, pcmPending >>

Init ==
    /\ api_key \in BOOLEAN
    /\ conn = "none"
    /\ inbox = <<>>
    /\ sent = <<>>
    /\ nServer = 0
    /\ nLines = 0
    /\ supPc = "init"
    /\ input_stream = "none"
    /\ output_stream = "none"
    /\ session_num = 1
    /\ restart_requested = FALSE
    /\ connects = 0
    /\ msg = NoMsg
    /\ sndPc = "idle"
    /\ accumulated = <<>>
    /\ frame_count = 0
    /\ emitted = <<>>
    /\ drained = <<>>
    /\ rcvPc = "idle"
    /\ current_speaker = "unset"
    /\ current_line_buffer = <<>>
    /\ monPc = "idle"
    /\ monResult = TRUE
    /\ line = <<>>
    /\ mic_queue = <<>>
    /\ stats = [mic_overflows |-> 0, speaker_underruns |-> 0, queue_size |-> 0]
    /\ nPush = 0
    /\ nCaptured = 0
    /\ pushed = <<>>
    /\ inPc = "idle"
    /\ mono = <<>>
    /\ speaker_buffer = <<>>
    /\ nPlay = 0
    /\ nDecoded = 0
    /\ genBase = 0
    /\ cleared = <<>>
    /\ played = <<>>
    /\ outdata = [samples |-> <<>>, zeros |-> 0]
    /\ outPc = "idle"
    /\ popsLeft = 0
    /\ pcmPending = 0

\* ------------------------------------------------------------ capture queue
\* the block size the streams are opened with (blocksize=FRAME_SIZE)
BlockSizes == {FRAME_SIZE}

\* queue.Queue(maxsize=MAX_QUEUE_SIZE).full()
QueueFull(q) == Len(q) >= MAX_QUEUE_SIZE

\* PutDropOldest with the fault of keeping the queue as it is when it is full
\* (the new chunk is the one dropped)
PutDropNewest(q, chunk) ==
    IF ~QueueFull(q) THEN Append(q, chunk) ELSE q

\* Lines 39-47 run to their end without a drain in between: put_nowait, and on
\* queue.Full get_nowait (the oldest chunk) followed by put_nowait.
PutDropOldest(q, chunk) ==
    IF ~QueueFull(q) THEN Append(q, chunk) ELSE Append(Tail(q), chunk)

\* What lines 32-34 add to stats["mic_overflows"]: one when the device reports
\* an input overflow in `status`, whatever the queue holds.
MicOverflowCount(input_overflow, q) == IF input_overflow THEN 1 ELSE 0

\* audio_callback_in for blocks of the sizes `sizes`, at most `limit` times,
\* the device reporting an input overflow or not as `statuses` allows
CallbackIn(sizes, limit, statuses) ==
    /\ input_stream = "running"
    /\ inPc = "idle"
    /\ nPush < limit
    /\ \E frames \in sizes, input_overflow \in statuses :
         /\ mono' = Samples(nCaptured, frames)
         /\ stats' = [stats EXCEPT !.mic_overflows =
                          @ + MicOverflowCount(input_overflow, mic_queue)]
         /\ mic_queue' = PutDropOldest(mic_queue, mono')
         /\ pushed' = Append(pushed, mono')
         /\ nCaptured' = nCaptured + frames
         /\ nPush' = nPush + 1
         /\ UNCHANGED inPc
    /\ UNCHANGED << envVars, supVars, sndVars, rcvVars, monVars, spkVars >>

\* the callback as the input stream calls it, with blocks of FRAME_SIZE
audio_callback_in(limit, statuses) == CallbackIn(BlockSizes, limit, statuses)

\* The callback as the audio thread runs it beside the event loop's thread:
\* the interpreter may switch threads between the put_nowait of line 40 that
\* raised queue.Full, the get_nowait of line 44 and the put_nowait of line 45.
\* lines 32-41: the first put_nowait
CallbackInPut(limit) ==
    /\ input_stream = "running"
    /\ inPc = "idle"
    /\ nPush < limit
    /\ \E frames \in BlockSizes :
         /\ mono' = Samples(nCaptured, frames)
         /\ nCaptured' = nCaptured + frames
    /\ IF QueueFull(mic_queue)
       THEN /\ inPc' = "full"
            /\ UNCHANGED << mic_queue, pushed, nPush >>
       ELSE /\ mic_queue' = Append(mic_queue, mono')
            /\ pushed' = Append(pushed, mono')
            /\ nPush' = nPush + 1
            /\ UNCHANGED inPc
    /\ UNCHANGED << envVars, supVars, sndVars, rcvVars, monVars, stats, spkVars >>

\* lines 43-44, 46-47: get_nowait; on an empty queue it raises queue.Empty,
\* which the bare except swallows, and the callback returns
CallbackInGet ==
    /\ inPc = "full"
    /\ IF mic_queue = <<>>
       THEN /\ inPc' = "idle"
            /\ pushed' = Append(pushed, mono)
            /\ nPush' = nPush + 1
            /\ UNCHANGED mic_queue
       ELSE /\ mic_queue' = Tail(mic_queue)
            /\ inPc' = "got"
            /\ UNCHANGED << pushed, nPush >>
    /\ UNCHANGED << envVars, supVars, sndVars, rcvVars, monVars, stats, nCaptured,
                    mono, spkVars >>

\* line 45: the second put_nowait
CallbackInPutAgain ==
    /\ inPc = "got"
    /\ mic_queue' = IF QueueFull(mic_queue) THEN mic_queue ELSE Append(mic_queue, mono)
    /\ pushed' = Append(pushed, mono)
    /\ nPush' = nPush + 1
    /\ inPc' = "idle"
    /\ UNCHANGED << envVars, supVars, sndVars, rcvVars, monVars, stats, nCaptured,
                    mono, spkVars >>

\* ------------------------------------------------------------ playback buffer
\* Extend with the fault of a deque that holds one second of audio only
ExtendShortDeque(buf, pcm) ==
    LET all == Concatenate(buf, pcm) IN
    DropFront(all, Max(0, SamplesLen(all) - SAMPLE_RATE))

\* deque(maxlen=100000).extend: when full, items leave at the other end
Extend(buf, pcm) ==
    LET all == Concatenate(buf, pcm) IN
    DropFront(all, Max(0, SamplesLen(all) - SPEAKER_MAXLEN))

\* OverCeiling with the fault of clearing at the ceiling itself
OverCeilingInclusive(buf) == SamplesLen(buf) >= SAMPLE_RATE * 2

\* the test of line 251
OverCeiling(buf) == SamplesLen(buf) > SAMPLE_RATE * 2

\* lines 251-254
SpeakerAppend(buf, pcm) == Extend(IF OverCeiling(buf) THEN <<>> ELSE buf, pcm)

\* the number of samples lines 57-64 pop for a request of `frames`
PopCount(buf, frames) ==
    IF SamplesLen(buf) >= frames THEN frames ELSE SamplesLen(buf)

\* the test of line 66, taken in the else branch of line 60 only
SignificantUnderrun(available, frames) ==
    available < frames /\ available < frames \div 2

\* audio_callback_out, run to its end without an append or clear in between,
\* at most `limit` times
audio_callback_out(limit, statuses) ==
    /\ output_stream = "running"
    /\ outPc = "idle"
    /\ nPlay < limit
    /\ \E frames \in BlockSizes, output_underflow \in statuses :
         LET available == SamplesLen(speaker_buffer)
             n == PopCount(speaker_buffer, frames)
             popped == TakeFront(speaker_buffer, n)
             rest == DropFront(speaker_buffer, n)
         IN
         /\ outdata' = [samples |-> popped, zeros |-> frames - n]
         /\ speaker_buffer' = rest
         /\ played' = Concatenate(played, popped)
         /\ stats' = [stats EXCEPT
                !.speaker_underruns =
                    @ + (IF output_underflow THEN 1 ELSE 0)
                      + (IF SignificantUnderrun(available, frames) THEN 1 ELSE 0),
                !.queue_size = SamplesLen(rest)]
         /\ nPlay' = nPlay + 1
    /\ UNCHANGED << envVars, supVars, sndVars, rcvVars, monVars,
                    mic_queue, nPush, nCaptured, pushed, inPc, mono, nDecoded,
                    genBase, cleared,
                    outPc, popsLeft, pcmPending >>

\* The callback as the audio thread runs it beside the event loop's thread:
\* the interpreter may switch threads between any two of its bytecodes, so
\* the test of line 57 (or the read of line 62) and the popleft calls of the
\* loop are separate steps.  The loop is observed after half of its turns and
\* at its end.
PopSteps(n) == IF n = 0 THEN {0} ELSE {n} \cup ({n \div 2} \ {0})

\* lines 52-57, 62: the number of turns of the loop is fixed
CallbackOutCheck(limit) ==
    /\ output_stream = "running"
    /\ outPc = "idle"
    /\ nPlay < limit
    /\ \E frames \in BlockSizes :
         LET n == PopCount(speaker_buffer, frames) IN
         /\ popsLeft' = n
         /\ outdata' = [samples |-> <<>>, zeros |-> frames - n]
    /\ outPc' = "popping"
    /\ UNCHANGED << envVars, supVars, sndVars, rcvVars, monVars, micVars,
                    speaker_buffer, nPlay, nDecoded, genBase, cleared, played,
                    pcmPending >>

\* lines 58-59, 63-69: k turns of the loop.  popleft on an empty deque raises
\* IndexError, which ends the callback and aborts the stream.
CallbackOutPop ==
    /\ outPc = "popping"
    /\ \E k \in PopSteps(popsLeft) :
         IF SamplesLen(speaker_buffer) >= k
         THEN LET popped == TakeFront(speaker_buffer, k)
                  rest == DropFront(speaker_buffer, k)
                  frames == SamplesLen(outdata.samples) + outdata.zeros + popsLeft
              IN
              /\ speaker_buffer' = rest
              /\ played' = Concatenate(played, popped)
              /\ outdata' = [outdata EXCEPT !.samples = Concatenate(@, popped)]
              /\ popsLeft' = popsLeft - k
              /\ IF k = popsLeft
                 THEN /\ outPc' = "idle"
                      /\ nPlay' = nPlay + 1
                      /\ stats' = [stats EXCEPT
                             !.speaker_underruns =
                                 @ + (IF SignificantUnderrun(frames - outdata.zeros, frames)
                                      THEN 1 ELSE 0),
                             !.queue_size = SamplesLen(rest)]
                 ELSE UNCHANGED << outPc, nPlay, stats >>
         ELSE /\ speaker_buffer' = <<>>
              /\ played' = Concatenate(played, speaker_buffer)
              /\ outdata' = [outdata EXCEPT !.samples = Concatenate(@, speaker_buffer)]
              /\ popsLeft' = popsLeft - SamplesLen(speaker_buffer)
              /\ outPc' = "raised"
              /\ UNCHANGED << nPlay, stats >>
    /\ UNCHANGED << envVars, supVars, sndVars, rcvVars, monVars, mic_queue, nPush,
                    nCaptured, pushed, inPc, mono, nDecoded, genBase, cleared,
                    pcmPending >>

\* ------------------------------------------------------------ the server
ServerMsgs == {HandshakeMsg, AudioMsg(2), EmptyMsg, StrMsg}

\* the server sends one message of the set `msgs`, at most `limit` in all
ServerSend(msgs, limit) ==
    /\ conn = "open"
    /\ nServer < limit
    /\ \E m \in msgs : inbox' = Append(inbox, m)
    /\ nServer' = nServer + 1
    /\ UNCHANGED << api_key, conn, sent, nLines, supVars, sndVars, rcvVars,
                    monVars, micVars, spkVars >>

\* the connection ends: a close handshake from the server, or a failure
ServerClose ==
    /\ conn = "open"
    /\ conn' = "lost"
    /\ UNCHANGED << api_key, inbox, sent, nServer, nLines, supVars, sndVars,
                    rcvVars, monVars, micVars, spkVars >>

\* ------------------------------------------------------------ stream_conversation
\* Finish with the fault of a finally clause that forgets the playback stream
FinishKeepsOutputStream ==
    /\ supPc' = "done"
    /\ conn' = IF conn = "none" THEN "none" ELSE "closed"
    /\ input_stream' = IF input_stream = "none" THEN "none" ELSE "closed"
    /\ output_stream' = output_stream

\* Leaving the try block (a break out of the loop, a return, or an exception):
\* the connection's context manager closes it, the finally clause stops and
\* closes the streams that exist.
Finish ==
    /\ supPc' = "done"
    /\ conn' = IF conn = "none" THEN "none" ELSE "closed"
    /\ input_stream' = IF input_stream = "none" THEN "none" ELSE "closed"
    /\ output_stream' = IF output_stream = "none" THEN "none" ELSE "closed"

\* lines 78-81: no credential
StartNoKey ==
    /\ supPc = "init"
    /\ ~api_key
    /\ supPc' = "done"
    /\ UNCHANGED << envVars, input_stream, output_stream, session_num,
                    restart_requested, connects, msg, sndVars, rcvVars, monVars,
                    micVars, spkVars >>

\* lines 103-123: both streams are created and started
StartStreams ==
    /\ supPc = "init"
    /\ api_key
    /\ supPc' = "connecting"
    /\ input_stream' = "running"
    /\ output_stream' = "running"
    /\ UNCHANGED << envVars, session_num, restart_requested, connects, msg, sndVars,
                    rcvVars, monVars, micVars, spkVars >>

\* lines 105-123: creating or starting a stream raises
StartStreamsError ==
    /\ supPc = "init"
    /\ api_key
    /\ supPc' = "done"
    /\ \E made \in { <<"none", "none">>, <<"closed", "none">>, <<"closed", "closed">> } :
         /\ input_stream' = made[1]
         /\ output_stream' = made[2]
    /\ UNCHANGED << envVars, session_num, restart_requested, connects, msg, sndVars,
                    rcvVars, monVars, micVars, spkVars >>

\* lines 128-137: websockets.connect succeeds
Connect ==
    /\ supPc = "connecting"
    /\ supPc' = "connected"
    /\ conn' = "open"
    /\ connects' = connects + 1
    /\ session_num' = 1
    /\ UNCHANGED << api_key, inbox, sent, nServer, nLines, input_stream,
                    output_stream, restart_requested, msg, sndVars, rcvVars, monVars,
                    micVars, spkVars >>

\* lines 128-133: websockets.connect raises
ConnectError ==
    /\ supPc = "connecting"
    /\ connects' = connects + 1
    /\ Finish
    /\ UNCHANGED << api_key, inbox, sent, nServer, nLines, session_num,
                    restart_requested, msg, sndVars, rcvVars, monVars, micVars, spkVars >>

\* lines 139-169 (after line 324's pause, in a later generation): reset the
\* flag, empty both buffers and the line buffer, send the config
GenStart ==
    /\ supPc \in {"connected", "pause"}
    /\ restart_requested' = FALSE
    /\ mic_queue' = <<>>
    /\ pushed' = <<>>
    /\ speaker_buffer' = <<>>
    /\ genBase' = nDecoded
    /\ cleared' = <<>>
    /\ played' = <<>>
    /\ current_line_buffer' = <<>>
    /\ IF conn = "open"
       THEN /\ sent' = Append(sent, ConfigMsg)
            /\ supPc' = "await_handshake"
            /\ UNCHANGED << conn, input_stream, output_stream >>
       ELSE /\ Finish
            /\ UNCHANGED sent
    /\ UNCHANGED << api_key, inbox, nServer, nLines, session_num, connects, msg,
                    sndVars, rcvPc, current_speaker, monVars, stats, nPush,
                    nCaptured, inPc, mono, nPlay, nDecoded, outdata, outPc, popsLeft, pcmPending >>

\* line 309: gather starts the three tasks
StartTasks ==
    /\ supPc' = "active"
    /\ sndPc' = "start"
    /\ accumulated' = <<>>
    /\ frame_count' = 0
    /\ emitted' = <<>>
    /\ drained' = <<>>
    /\ rcvPc' = "waiting"
    /\ monPc' = "reading"
    /\ line' = <<>>
    /\ UNCHANGED << conn, input_stream, output_stream, monResult >>

\* lines 173-180: what the first message after the config does
FirstMessage(first) ==
    IF first.bin /\ Len(first.bytes) > 0
    THEN IF first.bytes[1] = 0 THEN StartTasks
         ELSE Finish /\ UNCHANGED << sndVars, rcvPc, monVars >>
    ELSE StartTasks

\* lines 173-180, 309: ws.recv() returns a message
RecvFirst ==
    /\ supPc = "await_handshake"
    /\ inbox # <<>>
    /\ inbox' = Tail(inbox)
    /\ msg' = Head(inbox)
    /\ FirstMessage(Head(inbox))
    /\ UNCHANGED << api_key, sent, nServer, nLines, session_num,
                    restart_requested, connects, current_speaker,
                    current_line_buffer, micVars, spkVars >>

\* line 173: ws.recv() raises, the connection being closed
RecvFirstError ==
    /\ supPc = "await_handshake"
    /\ inbox = <<>>
    /\ conn # "open"
    /\ Finish
    /\ UNCHANGED << api_key, inbox, sent, nServer, nLines, session_num,
                    restart_requested, connects, msg, sndVars, rcvVars, monVars,
                    micVars, spkVars >>

\* AfterGather with the fault of leaving out the test of line 320: a
\* generation that ended without a command is followed by another
AfterGatherNoNaturalEnd ==
    IF monResult = FALSE THEN Finish /\ UNCHANGED session_num
    ELSE /\ session_num' = session_num + 1
         /\ supPc' = "pause"
         /\ UNCHANGED << conn, input_stream, output_stream >>

\* lines 316-324: the branch taken once gather has returned
AfterGather ==
    IF monResult = FALSE THEN Finish /\ UNCHANGED session_num
    ELSE IF ~restart_requested THEN Finish /\ UNCHANGED session_num
    ELSE /\ session_num' = session_num + 1
         /\ supPc' = "pause"
         /\ UNCHANGED << conn, input_stream, output_stream >>

\* lines 309-324: the three tasks have returned
Join ==
    /\ supPc = "active"
    /\ sndPc = "done" /\ rcvPc = "done" /\ monPc = "done"
    /\ AfterGather
    /\ sndPc' = "idle" /\ rcvPc' = "idle" /\ monPc' = "idle"
    /\ UNCHANGED << api_key, inbox, sent, nServer, nLines, restart_requested,
                    connects, msg, accumulated, frame_count, emitted, drained,
                    current_speaker, current_line_buffer, monResult, line, micVars,
                    spkVars >>

\* Ctrl+C at any point of the run: the supervisor's coroutine is cancelled at
\* the await it is suspended in (or KeyboardInterrupt is raised in it, lines
\* 326-327), the tasks of gather are cancelled with it, the connection's
\* context manager and the finally clause of lines 333-341 run.
KeyboardInterrupt ==
    /\ supPc # "done"
    /\ Finish
    /\ sndPc' = "idle" /\ rcvPc' = "idle" /\ monPc' = "idle"
    /\ UNCHANGED << api_key, inbox, sent, nServer, nLines, session_num,
                    restart_requested, connects, msg, accumulated, frame_count,
                    emitted, drained, current_speaker, current_line_buffer,
                    monResult, line, micVars, spkVars >>

\* ------------------------------------------------------------ send_audio
NumFrames(acc) == SamplesLen(acc) \div FRAME_SIZE

\* Rest with the fault of a slice that starts one sample late
RestSkipsSample(acc) == DropFront(acc, FRAME_SIZE + 1)

\* line 200: frame = accumulated[:FRAME_SIZE]
Frame(acc) == TakeFront(acc, FRAME_SIZE)

\* line 201: accumulated = accumulated[FRAME_SIZE:]
Rest(acc) == DropFront(acc, FRAME_SIZE)

\* the frames of k turns of the loop of lines 199-208, and what they leave
RECURSIVE Frames(_, _)
Frames(acc, k) == IF k = 0 THEN <<>> ELSE <<Frame(acc)>> \o Frames(Rest(acc), k - 1)

RECURSIVE AfterFrames(_, _)
AfterFrames(acc, k) == IF k = 0 THEN acc ELSE AfterFrames(Rest(acc), k - 1)

\* the message of line 207: tag 0x01 and the encoder's bytes
ClientAudioMsg == AudioMsg(2)

\* Lines 199-210 from the loop test to the next suspension.  The encoder
\* returns no bytes for the first k frames (line 206 skips the send); the
\* loop then either runs out of frames and sleeps (line 210), or awaits the
\* send of the next frame (line 207), which raises when the connection is
\* not open (lines 212-214).
FrameLoop(acc) ==
    \E k \in 0..NumFrames(acc) :
        IF k = NumFrames(acc)
        THEN /\ accumulated' = AfterFrames(acc, k)
             /\ emitted' = emitted \o Frames(acc, k)
             /\ sndPc' = "sleeping"
             /\ UNCHANGED sent
        ELSE /\ accumulated' = AfterFrames(acc, k + 1)
             /\ emitted' = emitted \o Frames(acc, k + 1)
             /\ IF conn = "open"
                THEN sent' = Append(sent, ClientAudioMsg) /\ sndPc' = "sending"
                ELSE UNCHANGED sent /\ sndPc' = "done"

\* lines 191-210: the task starts, or wakes from its 10 ms sleep
SenderWake ==
    /\ sndPc \in {"start", "sleeping"}
    /\ IF restart_requested
       THEN /\ sndPc' = "done"
            /\ UNCHANGED << accumulated, emitted, drained, sent, mic_queue, pushed >>
       ELSE /\ mic_queue' = <<>>
            /\ pushed' = <<>>
            /\ drained' = Concatenate(drained, Flatten(mic_queue))
            /\ FrameLoop(Concatenate(accumulated, Flatten(mic_queue)))
    /\ UNCHANGED << api_key, conn, inbox, nServer, nLines, supVars, frame_count,
                    rcvVars, monVars, stats, nPush, nCaptured, inPc, mono, spkVars >>

\* lines 207-210: the awaited send has returned; the frame loop goes on
SenderResume ==
    /\ sndPc = "sending"
    /\ frame_count' = frame_count + 1
    /\ FrameLoop(accumulated)
    /\ UNCHANGED << api_key, conn, inbox, nServer, nLines, supVars, drained,
                    rcvVars, monVars, micVars, spkVars >>

\* ------------------------------------------------------------ receive_responses
\* lines 251-254, with the record of what the overflow-clear removed
AppendPcm(count) ==
    /\ speaker_buffer' = SpeakerAppend(speaker_buffer, Samples(nDecoded, count))
    /\ cleared' = IF OverCeiling(speaker_buffer)
                  THEN Concatenate(cleared, speaker_buffer) ELSE cleared
    /\ nDecoded' = nDecoded + count

\* lines 235-254.  Reading current_speaker while the name is unbound raises
\* NameError, which line 269 catches: the task ends.
HandleAudio(payload) ==
    LET pcm == ReadPcm(payload) IN
    IF pcm.len = 0
    THEN UNCHANGED << rcvVars, speaker_buffer, cleared, nDecoded >>
    ELSE IF pcm.loud /\ current_speaker = "unset"
    THEN /\ rcvPc' = "done"
         /\ UNCHANGED << current_speaker, current_line_buffer, speaker_buffer,
                         cleared, nDecoded >>
    ELSE /\ IF pcm.loud /\ current_speaker # "AI"
            THEN current_speaker' = "AI" /\ current_line_buffer' = <<>>
            ELSE UNCHANGED << current_speaker, current_line_buffer >>
         /\ AppendPcm(pcm.len)
         /\ UNCHANGED rcvPc

\* lines 256-267
HandleText(payload) ==
    LET text == DecodeText(payload) IN
    IF text = "invalid-utf8"
    THEN rcvPc' = "done" /\ UNCHANGED << current_speaker, current_line_buffer >>
    ELSE IF IsBlank(text)
    THEN UNCHANGED rcvVars
    ELSE IF current_speaker = "unset"
    THEN rcvPc' = "done" /\ UNCHANGED << current_speaker, current_line_buffer >>
    ELSE /\ current_speaker' = IF current_speaker = "None" THEN "AI" ELSE current_speaker
         /\ current_line_buffer' = Append(current_line_buffer, text)
         /\ UNCHANGED rcvPc

\* lines 223-267: the body of the loop for one message
HandleMessage(message) ==
    IF restart_requested
    THEN rcvPc' = "done"
         /\ UNCHANGED << current_speaker, current_line_buffer, speaker_buffer,
                         cleared, nDecoded >>
    ELSE IF ~message.bin \/ Len(message.bytes) = 0
    THEN UNCHANGED << rcvVars, speaker_buffer, cleared, nDecoded >>
    ELSE LET msg_type == message.bytes[1]
             payload == Tail(message.bytes)
         IN
         IF msg_type = 1 THEN HandleAudio(payload)
         ELSE IF msg_type = 2
         THEN HandleText(payload) /\ UNCHANGED << speaker_buffer, cleared, nDecoded >>
         ELSE UNCHANGED << rcvVars, speaker_buffer, cleared, nDecoded >>

\* lines 222-267: the next message arrives
RecvMsg ==
    /\ rcvPc = "waiting"
    /\ inbox # <<>>
    /\ inbox' = Tail(inbox)
    /\ HandleMessage(Head(inbox))
    /\ UNCHANGED << api_key, conn, sent, nServer, nLines, supVars, sndVars,
                    monVars, micVars, nPlay, genBase, played, outdata, outPc,
                    popsLeft, pcmPending >>

\* The receiver as the audio thread sees it: for an audio message that
\* reaches line 251, the clear of line 252 and the extend of line 254 are
\* two operations on the deque, and the callback may run between them
\* (rcvPc = "extending").  Any other message is handled as in RecvMsg.
RecvClear ==
    /\ rcvPc = "waiting"
    /\ inbox # <<>>
    /\ inbox' = Tail(inbox)
    /\ LET message == Head(inbox)
           decoded == ReadPcm(Tail(message.bytes))
       IN
       IF /\ ~restart_requested
          /\ message.bin /\ Len(message.bytes) > 0 /\ message.bytes[1] = 1
          /\ decoded.len > 0
          /\ ~(decoded.loud /\ current_speaker = "unset")
       THEN /\ IF decoded.loud /\ current_speaker # "AI"
               THEN current_speaker' = "AI" /\ current_line_buffer' = <<>>
               ELSE UNCHANGED << current_speaker, current_line_buffer >>
            /\ speaker_buffer' = IF OverCeiling(speaker_buffer) THEN <<>> ELSE speaker_buffer
            /\ cleared' = IF OverCeiling(speaker_buffer)
                          THEN Concatenate(cleared, speaker_buffer) ELSE cleared
            /\ pcmPending' = decoded.len
            /\ rcvPc' = "extending"
            /\ UNCHANGED nDecoded
       ELSE HandleMessage(message) /\ UNCHANGED pcmPending
    /\ UNCHANGED << api_key, conn, sent, nServer, nLines, supVars, sndVars,
                    monVars, micVars, nPlay, genBase, played, outdata, outPc,
                    popsLeft >>

\* line 254
RecvExtend ==
    /\ rcvPc = "extending"
    /\ speaker_buffer' = Extend(speaker_buffer, Samples(nDecoded, pcmPending))
    /\ nDecoded' = nDecoded + pcmPending
    /\ pcmPending' = 0
    /\ rcvPc' = "waiting"
    /\ UNCHANGED << envVars, supVars, sndVars, current_speaker, current_line_buffer,
                    monVars, micVars, nPlay, genBase, cleared, played, outdata,
                    outPc, popsLeft >>

\* lines 222, 269-271: the connection has ended and no message is left; the
\* iteration stops, or raises into line 269
RecvClosed ==
    /\ rcvPc = "waiting"
    /\ inbox = <<>>
    /\ conn # "open"
    /\ rcvPc' = "done"
    /\ UNCHANGED << envVars, supVars, sndVars, current_speaker,
                    current_line_buffer, monVars, micVars, spkVars >>

\* ------------------------------------------------------------ monitor_input
\* lines 286-304: what one line read from stdin does
HandleLine(read) ==
    IF ~Decodable(read)
    THEN /\ monPc' = "done" /\ monResult' = TRUE
         /\ UNCHANGED << restart_requested, sent >>
    ELSE IF Command(read) = Restart
    THEN /\ restart_requested' = TRUE
         /\ monResult' = TRUE
         /\ IF conn = "open"
            THEN sent' = Append(sent, ControlRestartMsg) /\ monPc' = "sending"
            ELSE UNCHANGED sent /\ monPc' = "done"
    ELSE IF Command(read) = Quit
    THEN /\ restart_requested' = TRUE
         /\ monResult' = FALSE
         /\ monPc' = "done"
         /\ UNCHANGED sent
    ELSE UNCHANGED << restart_requested, sent, monPc, monResult >>

\* lines 282-304: readline returns a line
MonLine ==
    /\ monPc = "reading"
    /\ nLines < MaxLines
    /\ nLines' = nLines + 1
    /\ \E read \in Lines : line' = read /\ HandleLine(read)
    /\ UNCHANGED << api_key, conn, inbox, nServer, supPc, input_stream,
                    output_stream, session_num, connects, msg, sndVars, rcvVars,
                    micVars, spkVars >>

\* lines 285, 300-301: the read times out after 0.5 s
MonTimeout ==
    /\ monPc = "reading"
    /\ ~restart_requested
    /\ UNCHANGED vars

\* lines 292-293: the awaited send of the control message has returned
MonResume ==
    /\ monPc = "sending"
    /\ monPc' = "done"
    /\ UNCHANGED << envVars, supVars, sndVars, rcvVars, monResult, line, micVars,
                    spkVars >>

\* ------------------------------------------------------------ specifications
Supervisor ==
    \/ StartNoKey
    \/ StartStreams
    \/ StartStreamsError
    \/ Connect
    \/ ConnectError
    \/ GenStart
    \/ RecvFirst
    \/ RecvFirstError
    \/ Join

Sender == SenderWake \/ SenderResume

Receiver == RecvMsg \/ RecvClosed

Next ==
    \/ Supervisor
    \/ Sender
    \/ Receiver
    \/ MonLine
    \/ MonTimeout
    \/ MonResume
    \/ audio_callback_in(MaxPush, {FALSE})
    \/ ServerSend(ServerMsgs, MaxServerMsgs)
    \/ ServerClose

Spec == Init /\ [][Next]_vars

\* The same program under the scheduling asyncio guarantees: a task that can
\* run does run.  The server, the user at stdin and the audio devices are
\* not obliged to do anything.
Fairness ==
    /\ WF_vars(Supervisor)
    /\ WF_vars(Sender)
    /\ WF_vars(Receiver)
    /\ WF_vars(MonResume)

FairSpec == Init /\ [][Next]_vars /\ Fairness

ShutdownNext == Next \/ KeyboardInterrupt

\* the program with a user who may press Ctrl+C at any time
ShutdownSpec == Init /\ [][ShutdownNext]_vars

\* A generation at the point where the config has been sent and the handshake
\* is awaited: the streams run and nothing drains the capture queue.
AwaitingHandshake ==
    /\ api_key = TRUE
    /\ conn = "open"
    /\ inbox = <<>>
    /\ sent = <<ConfigMsg>>
    /\ nServer = 0
    /\ nLines = 0
    /\ supPc = "await_handshake"
    /\ input_stream = "running"
    /\ output_stream = "running"
    /\ session_num = 1
    /\ restart_requested = FALSE
    /\ connects = 1
    /\ msg = NoMsg
    /\ sndPc = "idle"
    /\ accumulated = <<>>
    /\ frame_count = 0
    /\ emitted = <<>>
    /\ drained = <<>>
    /\ rcvPc = "idle"
    /\ current_speaker = "unset"
    /\ current_line_buffer = <<>>
    /\ monPc = "idle"
    /\ monResult = TRUE
    /\ line = <<>>
    /\ mic_queue = <<>>
    /\ stats = [mic_overflows |-> 0, speaker_underruns |-> 0, queue_size |-> 0]
    /\ nPush = 0
    /\ nCaptured = 0
    /\ pushed = <<>>
    /\ inPc = "idle"
    /\ mono = <<>>
    /\ speaker_buffer = <<>>
    /\ nPlay = 0
    /\ nDecoded = 0
    /\ genBase = 0
    /\ cleared = <<>>
    /\ played = <<>>
    /\ outdata = [samples |-> <<>>, zeros |-> 0]
    /\ outPc = "idle"
    /\ popsLeft = 0
    /\ pcmPending = 0

CaptureNext == audio_callback_in(MaxBurst, BOOLEAN)

\* the capture callback alone, the queue undrained
CaptureSpec == AwaitingHandshake /\ [][CaptureNext]_vars

\* The first generation, Active: the handshake has been received and the
\* three tasks have started.
FirstGenerationActive ==
    /\ api_key = TRUE
    /\ conn = "open"
    /\ inbox = <<>>
    /\ sent = <<ConfigMsg>>
    /\ nServer = 1
    /\ nLines = 0
    /\ supPc = "active"
    /\ input_stream = "running"
    /\ output_stream = "running"
    /\ session_num = 1
    /\ restart_requested = FALSE
    /\ connects = 1
    /\ msg = HandshakeMsg
    /\ sndPc = "start"
    /\ accumulated = <<>>
    /\ frame_count = 0
    /\ emitted = <<>>
    /\ drained = <<>>
    /\ rcvPc = "waiting"
    /\ current_speaker = "unset"
    /\ current_line_buffer = <<>>
    /\ monPc = "reading"
    /\ monResult = TRUE
    /\ line = <<>>
    /\ mic_queue = <<>>
    /\ stats = [mic_overflows |-> 0, speaker_underruns |-> 0, queue_size |-> 0]
    /\ nPush = 0
    /\ nCaptured = 0
    /\ pushed = <<>>
    /\ inPc = "idle"
    /\ mono = <<>>
    /\ speaker_buffer = <<>>
    /\ nPlay = 0
    /\ nDecoded = 0
    /\ genBase = 0
    /\ cleared = <<>>
    /\ played = <<>>
    /\ outdata = [samples |-> <<>>, zeros |-> 0]
    /\ outPc = "idle"
    /\ popsLeft = 0
    /\ pcmPending = 0

\* the audio messages of the playback scenario: every entry of PcmTable
PlaybackMsgs == { AudioMsg(code) : code \in DOMAIN PcmTable }

PlaybackNext ==
    \/ ServerSend(PlaybackMsgs, 1 + MaxAudioMsgs)
    \/ RecvMsg
    \/ audio_callback_out(MaxPlay, BOOLEAN)

\* the receiver's appends and the playback callback's pops in one generation
PlaybackSpec == FirstGenerationActive /\ [][PlaybackNext]_vars

\* the chunk lengths of the frame-assembly scenario: shorter than a frame,
\* a frame, longer than two frames
ChunkLens == {200, 280, 480, 1000}

AssemblerNext ==
    \/ CallbackIn(ChunkLens, MaxChunks, {FALSE})
    \/ SenderWake
    \/ SenderResume
    \/ ServerClose

\* the sender's drains and frame loop in one generation, over chunks of any
\* of these lengths
AssemblerSpec == FirstGenerationActive /\ [][AssemblerNext]_vars

\* every kind of message the receiver can meet: the four tags, audio that
\* decodes to nothing, to quiet and to loud samples, text that is a fragment,
\* blank or not UTF-8, an empty message, a str message, an unknown tag
ReceiverMsgs ==
    { HandshakeMsg, AudioMsg(1), AudioMsg(2), AudioMsg(3), TextMsg(1), TextMsg(2),
      TextMsg(3), ControlRestartMsg, EmptyMsg, StrMsg, UnknownTagMsg }

ReceiverNext ==
    \/ ServerSend(ReceiverMsgs, 1 + MaxRecvMsgs)
    \/ ServerClose
    \/ Receiver
    \/ MonLine
    \/ MonResume

\* the receiver of one generation and the command monitor beside it
ReceiverSpec == FirstGenerationActive /\ [][ReceiverNext]_vars

CaptureRaceNext ==
    \/ CallbackInPut(MaxRacePush)
    \/ CallbackInGet
    \/ CallbackInPutAgain
    \/ SenderWake
    \/ SenderResume

\* the capture callback on the audio thread, at the grain at which the two
\* threads interleave, and the sender that drains the queue
CaptureRaceSpec == FirstGenerationActive /\ [][CaptureRaceNext]_vars

RaceNext ==
    \/ ServerSend(PlaybackMsgs, 1 + MaxAudioMsgs)
    \/ RecvClear
    \/ RecvExtend
    \/ CallbackOutCheck(MaxPlay)
    \/ CallbackOutPop

\* the receiver on the event loop's thread and the playback callback on the
\* audio thread, at the grain at which the two threads interleave
RaceSpec == FirstGenerationActive /\ [][RaceNext]_vars

\* ------------------------------------------------------------ properties
\* the AudioChunk messages (tag 0x01) among the messages sent
NumAudio(msgs) ==
    Cardinality({ i \in DOMAIN msgs :
                    msgs[i].bin /\ Len(msgs[i].bytes) > 0 /\ msgs[i].bytes[1] = 1 })

TasksIdle == sndPc = "idle" /\ rcvPc = "idle" /\ monPc = "idle"
TasksStopped == sndPc = "done" /\ rcvPc = "done" /\ monPc = "done"

\* C1: a generation becomes Active only if the first message received after
\* the config is a handshake; any other first message, or a transport error
\* before it, ends the supervisor with the three tasks never started.
C1_ActiveOnlyAfterHandshake ==
    [][ (supPc = "await_handshake" /\ supPc' # "await_handshake") =>
            IF inbox # <<>> /\ IsHandshake(Head(inbox))
            THEN supPc' = "active"
            ELSE supPc' = "done" /\ TasksIdle' ]_vars

\* a restart control message has been sent and the handshake of the next
\* generation has not been received yet
ControlOutstanding ==
    \/ \E i \in DOMAIN sent :
          /\ sent[i] = ControlRestartMsg
          /\ \A j \in DOMAIN sent : j > i => sent[j] # ConfigMsg
    \/ /\ supPc = "await_handshake"
       /\ \E i \in DOMAIN sent : sent[i] = ControlRestartMsg

\* the step in which the command monitor accepts `restart`
RestartAccepted == monPc = "reading" /\ restart_requested' /\ monResult' /\ monPc' # "reading"

\* C2: an accepted restart sends exactly one control message [0x03, 0x03]
\* (the connection being open), the generation that ends with it increments
\* session_num by exactly one, the next generation starts with both buffers
\* empty, and from the control message to the next handshake the client sends
\* no AudioChunk and appends no sample to the playback buffer.
C2_RestartSequence ==
    [][ /\ (RestartAccepted /\ conn = "open") => sent' = Append(sent, ControlRestartMsg)
        /\ (~RestartAccepted) =>
               (\A i \in DOMAIN sent' : i > Len(sent) => sent'[i] # ControlRestartMsg)
        /\ (supPc = "active" /\ supPc' = "pause") => session_num' = session_num + 1
        /\ (supPc = "pause" /\ supPc' # "pause") =>
               (mic_queue' = <<>> /\ speaker_buffer' = <<>>)
        /\ (ControlOutstanding /\ IsHandshake(msg)) =>
               (NumAudio(sent') = NumAudio(sent) /\ nDecoded' = nDecoded) ]_vars

\* C3: once restart_requested is set in an Active generation, the three tasks
\* all stop and the generation ends, whatever the server does.
C3_FlagStopsGeneration ==
    (supPc = "active" /\ IsHandshake(msg) /\ restart_requested) ~> (supPc # "active")

\* C4: once restart_requested is set, the sender sends no further AudioChunk
\* in that generation.
C4_NoAudioAfterFlag ==
    [][ (supPc = "active" /\ IsHandshake(msg) /\ restart_requested) =>
            NumAudio(sent') = NumAudio(sent) ]_vars

\* C5: when the three tasks have stopped the supervisor takes exactly one of
\* three branches: stop (the monitor returned False): close and exit;
\* continue with restart_requested set: increment session_num and go on, on
\* the same connection, to the next generation; continue with it unset: exit.
\* The client never connects twice.
C5_ThreeBranches ==
    [][ /\ (supPc = "active" /\ supPc' # "active") =>
              /\ TasksStopped
              /\ IF monResult = FALSE
                 THEN supPc' = "done" /\ conn' = "closed" /\ session_num' = session_num
                 ELSE IF restart_requested
                 THEN /\ supPc' = "pause"
                      /\ session_num' = session_num + 1
                      /\ conn' = conn
                 ELSE supPc' = "done" /\ conn' = "closed" /\ session_num' = session_num
        /\ (supPc = "pause" /\ supPc' # "pause") =>
              (supPc' = "await_handshake" \/ (conn # "open" /\ supPc' = "done"))
        /\ conn # "none" => (connects' = connects /\ (conn' = "open" => conn = "open"))
        /\ connects' <= 1 ]_vars

\* C5: the natural end of the second generation, the first having ended in a
\* restart
C5_Witness ==
    /\ supPc = "done"
    /\ session_num = 2
    /\ monResult /\ ~restart_requested
    /\ sent = << ConfigMsg, ControlRestartMsg, ConfigMsg, ClientAudioMsg >>

\* C6: when the connection is lost in an Active generation with no command
\* given, the task that met the failure stops, the others stop too without
\* any command input, and the supervisor exits.  Stated from the point where
\* the sender and the receiver have stopped: what remains is for the command
\* monitor to stop and for the supervisor to exit.
C6_NaturalEndWithoutCommand ==
    (supPc = "active" /\ IsHandshake(msg) /\ conn = "lost" /\ ~restart_requested
        /\ sndPc = "done" /\ rcvPc = "done")
    ~> (supPc = "done" \/ restart_requested)

\* the last n items of a sequence
LastN(seq, n) == SubSeq(seq, Len(seq) - n + 1, Len(seq))

\* C7: the capture queue never holds more than 10 chunks, and after k pushes
\* with no drain it holds the most recent min(k, 10) chunks, oldest first.
C7_QueueKeepsNewest ==
    /\ Len(mic_queue) <= 10
    /\ mic_queue = LastN(pushed, Min(Len(pushed), 10))

\* C7: the queue after more pushes than it holds
C7_Witness ==
    /\ Len(pushed) = 25
    /\ Len(mic_queue) = 10
    /\ mic_queue[1] = pushed[16]
    /\ mic_queue[10] = pushed[25]

\* C8: every push that finds the capture queue full adds one to the overflow
\* counter, so that 25 pushes into an undrained queue leave it at 15.
C8_OverflowCounted ==
    [][ (nPush' = nPush + 1 /\ Len(mic_queue) = 10) =>
            stats'.mic_overflows = stats.mic_overflows + 1 ]_vars

\* C9: an append that finds more than 48000 samples buffered leaves exactly
\* the new samples in the buffer; one that finds at most 48000 leaves the
\* buffer as it was with the new samples behind it.
C9_ClearAboveCeiling ==
    [][ nDecoded' > nDecoded =>
            LET new == Samples(nDecoded, nDecoded' - nDecoded) IN
            IF SamplesLen(speaker_buffer) > 48000
            THEN speaker_buffer' = new
            ELSE /\ TakeFront(speaker_buffer', SamplesLen(speaker_buffer)) = speaker_buffer
                 /\ DropFront(speaker_buffer', SamplesLen(speaker_buffer)) = new ]_vars

\* C9: an overflow-clear has happened and the buffer holds exactly what was
\* appended by the append that cleared
C9_Witness ==
    /\ SamplesLen(cleared) > 48000
    /\ speaker_buffer # <<>>
    /\ speaker_buffer = Samples(SamplesLen(cleared), nDecoded - SamplesLen(cleared))

\* run r without the samples of run d
RunMinus(r, d) ==
    (IF r[1] < d[1] THEN << <<r[1], Min(r[2], d[1] - 1)>> >> ELSE <<>>)
    \o (IF r[2] > d[2] THEN << <<Max(r[1], d[2] + 1), r[2]>> >> ELSE <<>>)

RECURSIVE WithoutRun(_, _)
WithoutRun(s, d) ==
    IF s = <<>> THEN <<>> ELSE RunMinus(s[1], d) \o WithoutRun(Tail(s), d)

\* the samples of s that are not in c, in the order of s
RECURSIVE Without(_, _)
Without(s, c) == IF c = <<>> THEN s ELSE Without(WithoutRun(s, c[1]), Tail(c))

\* C10: the samples written to the device followed by those still buffered
\* are exactly the appended samples without those an overflow-clear removed,
\* in the order of their appending; every callback writes exactly n samples,
\* zeros only for what the buffer was short of.
C10_PlayedInOrderOnce ==
    /\ [](Concatenate(played, speaker_buffer)
            = Without(Samples(genBase, nDecoded - genBase), cleared))
    /\ [][ nPlay' = nPlay + 1 =>
             /\ SamplesLen(outdata'.samples) + outdata'.zeros = 480
             /\ outdata'.zeros = Max(0, 480 - SamplesLen(speaker_buffer))
             /\ outdata'.samples = TakeFront(speaker_buffer, 480) ]_vars

\* C10: samples have been appended, some cleared, some played, with padding
C10_Witness ==
    /\ cleared # <<>>
    /\ played # <<>>
    /\ outdata.zeros > 0

\* C11: a playback request for n samples with a < n buffered writes those a
\* samples followed by n - a zeros and empties the buffer, and adds one to the
\* underrun counter exactly when the shortfall n - a exceeds half of n; a
\* request with a >= n removes exactly the first n samples and leaves the
\* counter as it was.
C11_UnderrunOnShortfall ==
    [][ nPlay' = nPlay + 1 =>
            LET a == SamplesLen(speaker_buffer)
                n == SamplesLen(outdata'.samples) + outdata'.zeros
            IN
            IF a < n
            THEN /\ outdata' = [samples |-> speaker_buffer, zeros |-> n - a]
                 /\ speaker_buffer' = <<>>
                 /\ stats'.speaker_underruns =
                        stats.speaker_underruns + (IF 2 * (n - a) > n THEN 1 ELSE 0)
            ELSE /\ outdata' = [samples |-> TakeFront(speaker_buffer, n), zeros |-> 0]
                 /\ speaker_buffer' = DropFront(speaker_buffer, n)
                 /\ stats'.speaker_underruns = stats.speaker_underruns ]_vars

\* C12: in a generation, every frame the sender's assembler emits has exactly
\* 480 samples, the emitted frames followed by the residual are the drained
\* chunks in their order, and after a poll the residual is shorter than 480.
C12_FramesPartitionStream ==
    /\ \A i \in DOMAIN emitted : SamplesLen(emitted[i]) = 480
    /\ Concatenate(Flatten(emitted), accumulated) = drained
    /\ sndPc = "sleeping" => SamplesLen(accumulated) < 480

\* C12: several frames emitted and sent, a chunk of another length than 480
\* captured, a residual left after the poll
C12_Witness ==
    /\ sndPc = "sleeping"
    /\ Len(emitted) >= 3
    /\ accumulated # <<>>
    /\ frame_count >= 2
    /\ \E i \in DOMAIN pushed : SamplesLen(pushed[i]) # 480

\* a message the protocol drops: empty, not binary, or of an unknown tag
Droppable(m) == ~m.bin \/ Len(m.bytes) = 0 \/ m.bytes[1] \notin {0, 1, 2, 3}

\* the step in which the receiver of an Active generation takes a message
ReceiverTakes == supPc = "active" /\ rcvPc = "waiting" /\ inbox # <<>> /\ inbox' = Tail(inbox)

\* C13: in an Active generation a received message that is empty, not binary
\* or of an unknown tag changes neither the playback buffer, the pending-line
\* buffer, the speaker turn nor restart_requested, and the receiver goes on
\* waiting for the next message.
C13_DroppedMessageNoEffect ==
    [][ (ReceiverTakes /\ Droppable(Head(inbox))) =>
            /\ speaker_buffer' = speaker_buffer
            /\ current_line_buffer' = current_line_buffer
            /\ current_speaker' = current_speaker
            /\ restart_requested' = restart_requested
            /\ rcvPc' = "waiting" ]_vars

\* the step in which the command monitor of a generation that began with a
\* handshake reads a line
MonitorReads == IsHandshake(msg) /\ monPc = "reading" /\ nLines' = nLines + 1

\* C14: on a line that is `restart` once trimmed and lower-cased the command
\* monitor sets restart_requested, sends exactly one control message
\* [0x03, 0x03] (the connection being open) and returns continue; on `quit`
\* it sets restart_requested, sends nothing and returns stop; on any other
\* line it leaves restart_requested, the transport and the session state as
\* they were and goes on reading.
C14_MonitorCommands ==
    [][ MonitorReads =>
            LET command == Lower(Strip(line')) IN
            IF command = Restart
            THEN /\ restart_requested'
                 /\ conn = "open" => sent' = Append(sent, ControlRestartMsg)
                 /\ monResult' = TRUE
                 /\ monPc' # "reading"
            ELSE IF command = Quit
            THEN /\ restart_requested'
                 /\ sent' = sent
                 /\ monResult' = FALSE
                 /\ monPc' = "done"
            ELSE /\ restart_requested' = restart_requested
                 /\ sent' = sent
                 /\ conn' = conn
                 /\ session_num' = session_num
                 /\ supPc' = supPc
                 /\ monPc' = "reading" ]_vars

\* the number of samples an AudioChunk decodes to; 0 for any other message
DecodedLen(m) ==
    IF m.bin /\ Len(m.bytes) > 0 /\ m.bytes[1] = 1 THEN ReadPcm(Tail(m.bytes)).len ELSE 0

\* C15: in an Active generation with restart_requested unset, an AudioChunk
\* that decodes to at least one sample has its samples appended to the
\* playback buffer, whatever their amplitude and whatever the speaker turn,
\* and the receiver goes on to the next message.
C15_AudioAlwaysAppended ==
    [][ (ReceiverTakes /\ ~restart_requested /\ DecodedLen(Head(inbox)) > 0) =>
            LET count == DecodedLen(Head(inbox)) IN
            /\ nDecoded' = nDecoded + count
            /\ DropFront(speaker_buffer', SamplesLen(speaker_buffer') - count)
                   = Samples(nDecoded, count)
            /\ rcvPc' = "waiting" ]_vars

\* the text of a TextChunk that decodes to non-blank text; "" otherwise
NonBlankText(m) ==
    IF m.bin /\ Len(m.bytes) > 0 /\ m.bytes[1] = 2
           /\ DecodeText(Tail(m.bytes)) # "invalid-utf8"
           /\ ~IsBlank(DecodeText(Tail(m.bytes)))
    THEN DecodeText(Tail(m.bytes))
    ELSE ""

\* C16: in an Active generation with restart_requested unset, a TextChunk
\* with non-blank text is appended to the pending-line buffer, behind what it
\* holds, and the receiver keeps running; the buffer is emptied only by a
\* change of speaker turn or by the start of a generation.
C16_TextAlwaysBuffered ==
    [][ /\ (ReceiverTakes /\ ~restart_requested /\ NonBlankText(Head(inbox)) # "") =>
              /\ current_line_buffer'
                     = Append(current_line_buffer, NonBlankText(Head(inbox)))
              /\ rcvPc' = "waiting"
        /\ (current_line_buffer # <<>> /\ current_line_buffer' = <<>>) =>
              \/ current_speaker' # current_speaker
              \/ supPc \in {"connected", "pause"} /\ supPc' # supPc ]_vars

\* C17: however the client terminates, a stream that was created is stopped
\* and closed and a connection that was opened is closed; both streams once
\* created, both end closed.  Without the credential no stream is created,
\* no connection is made and no generation starts.
C17_ResourcesReleased ==
    /\ [](supPc = "done" =>
             /\ input_stream \in {"none", "closed"}
             /\ output_stream \in {"none", "closed"}
             /\ conn \in {"none", "closed"})
    /\ [](~api_key =>
             /\ input_stream = "none" /\ output_stream = "none"
             /\ conn = "none" /\ connects = 0
             /\ sent = <<>> /\ TasksIdle
             /\ supPc \in {"init", "done"})
    /\ [][ supPc' = "done" =>
              /\ input_stream # "none" => input_stream' = "closed"
              /\ output_stream # "none" => output_stream' = "closed"
              /\ conn # "none" => conn' = "closed" ]_vars

\* C17: terminated by Ctrl+C in the second generation, Active, with nothing
\* left running
C17_Witness ==
    /\ supPc = "done"
    /\ session_num = 2
    /\ IsHandshake(msg) /\ monResult /\ ~restart_requested
    /\ conn = "closed" /\ inbox = <<>>
    /\ input_stream = "closed" /\ output_stream = "closed"
    /\ TasksIdle /\ line = <<>>

\* C18: the playback callback and the event loop's operations on the playback
\* buffer are mutually atomic: the callback never calls popleft on an empty
\* buffer, no clear coming between its test of the depth and the last of its
\* removals.
C18_CallbackNeverPopsEmpty ==
    [][ outPc = "popping" => outPc' # "raised" ]_vars

\* C19: whenever a capture callback returns, the chunk it pushed is in the
\* queue as the newest entry, however the push interleaved with a drain: a
\* push that found the queue full never drops the new chunk.
C19_PushedChunkIsNewest ==
    [][ nPush' = nPush + 1 =>
            /\ mic_queue' # <<>>
            /\ mic_queue'[Len(mic_queue')] = mono' ]_vars

\* C20: the receiver of a generation whose restart_requested has been set by
\* an accepted restart takes no message off the transport and discards it;
\* in particular the handshake with which the server answers the control
\* message is left for the handshake wait of the next generation.
C20_NoMessageTakenAfterFlag ==
    [][ (IsHandshake(msg) /\ restart_requested /\ monResult
            /\ inbox # <<>> /\ IsHandshake(Head(inbox))) => ~ReceiverTakes ]_vars

====
